---------------------------- MODULE Spec2Model ----------------------------
(***************************************************************************)
(* Model of src/app.js: a single-turn chat pipeline with a keyword         *)
(* denylist on the user's line and on the model's reply.                   *)
(*                                                                         *)
(* The module declares four functions: containsBannedContent (36-39),      *)
(* moderateOutput (46-59), callDeepseekAPI (66-75) and main (119-170).     *)
(* callDeepseekAPI's body is closed by the "}}" of line 75, so it holds    *)
(* the credential check only.  The request code of lines 77-117 is left    *)
(* outside every function, as statements of the module itself; it reads    *)
(* the undeclared userInput and holds a "return" outside a function, so no *)
(* call of any function ever executes it.  main, at line 146, calls        *)
(* callOpenRouter, a name the module never declares.                       *)
(*                                                                         *)
(* A "return" outside a function is a syntax error of an ES module, so the *)
(* file as it stands is rejected when loaded.  The model describes the     *)
(* functions as they are declared, and main as line 171 invokes it.        *)
(*                                                                         *)
(* A text is a sequence of one-character strings.                          *)
(***************************************************************************)
EXTENDS Integers, Sequences, FiniteSets, TLC

(***************************************************************************)
(* Bounds of the model.                                                    *)
(***************************************************************************)
\* Texts handed to the two matchers are made of at most MaxPieces pieces.
MaxPieces == 3
\* Lines typed by the user are made of at most MaxLinePieces pieces.
MaxLinePieces == 2
\* Texts moderated under a permuted keyword array are made of at most
\* MaxOrderPieces pieces.
MaxOrderPieces == 2

(***************************************************************************)
(* Characters.  KELVIN is U+212A KELVIN SIGN, an upper-case letter whose   *)
(* lower-case mapping is "k" and whose upper-case mapping is itself.       *)
(***************************************************************************)
KELVIN == "U+212A"

\* String.prototype.toLowerCase, per character (line 37).
LowerChar(c) ==
  CASE c = "A" -> "a" [] c = "B" -> "b" [] c = "C" -> "c" [] c = "D" -> "d"
    [] c = "E" -> "e" [] c = "H" -> "h" [] c = "I" -> "i" [] c = "K" -> "k"
    [] c = "L" -> "l" [] c = "M" -> "m" [] c = "N" -> "n" [] c = "O" -> "o"
    [] c = "P" -> "p" [] c = "R" -> "r" [] c = "T" -> "t" [] c = "V" -> "v"
    [] c = "X" -> "x"
    [] c = KELVIN -> "k"
    [] OTHER -> c

\* String.prototype.toUpperCase, per character.
UpperChar(c) ==
  CASE c = "a" -> "A" [] c = "b" -> "B" [] c = "c" -> "C" [] c = "d" -> "D"
    [] c = "e" -> "E" [] c = "h" -> "H" [] c = "i" -> "I" [] c = "k" -> "K"
    [] c = "l" -> "L" [] c = "m" -> "M" [] c = "n" -> "N" [] c = "o" -> "O"
    [] c = "p" -> "P" [] c = "r" -> "R" [] c = "t" -> "T" [] c = "v" -> "V"
    [] c = "x" -> "X"
    [] OTHER -> c

\* What a RegExp with the i flag and without the u flag compares (line 50):
\* the character's upper-case mapping.  KELVIN maps to itself, not to "K".
Canonicalize(c) == UpperChar(c)

\* White space as String.prototype.trim sees it (line 131).
IsWhiteSpace(c) == c \in {" ", "\t"}

(***************************************************************************)
(* Program constants.                                                      *)
(***************************************************************************)
\* BANNED_KEYWORDS, in the array's order (lines 18-25).
BANNED_KEYWORDS ==
  << <<"k", "i", "l", "l">>,
     <<"h", "a", "c", "k">>,
     <<"b", "o", "m", "b">>,
     <<"e", "x", "p", "l", "o", "i", "t">>,
     <<"v", "i", "o", "l", "e", "n", "c", "e">>,
     <<"r", "a", "p", "e">> >>

\* The replacement string of line 53.
REDACTED == <<"[", "R", "E", "D", "A", "C", "T", "E", "D", "]">>

(***************************************************************************)
(* containsBannedContent (lines 36-39).                                    *)
(***************************************************************************)
ToLowerCase(text) == [i \in 1..Len(text) |-> LowerChar(text[i])]

\* String.prototype.includes.
Includes(text, keyword) ==
  \E i \in 1..(Len(text) - Len(keyword) + 1) :
    SubSeq(text, i, i + Len(keyword) - 1) = keyword

\* Variant: the text is searched as typed, without lower-casing it.
containsBannedContent_AsTyped(text) ==
  \E n \in 1..Len(BANNED_KEYWORDS) : Includes(text, BANNED_KEYWORDS[n])

containsBannedContent(text) ==
  LET lowerCaseText == ToLowerCase(text)
  IN  \E n \in 1..Len(BANNED_KEYWORDS) : Includes(lowerCaseText, BANNED_KEYWORDS[n])


(***************************************************************************)
(* moderateOutput (lines 46-59).                                           *)
(***************************************************************************)
\* Whether new RegExp(keyword, 'gi') matches text at position i.
RegexMatchAt(keyword, text, i) ==
  /\ i + Len(keyword) - 1 <= Len(text)
  /\ \A j \in 1..Len(keyword) :
       Canonicalize(text[i + j - 1]) = Canonicalize(keyword[j])

\* regex.test(text) on the regex line 50 has just built: lastIndex is 0, so
\* it searches the whole text (line 51).
RegexTest(keyword, text) ==
  \E i \in 1..Len(text) : RegexMatchAt(keyword, text, i)

\* text.replace(regex, '[REDACTED]') with the g flag: replace resets
\* lastIndex to 0 and substitutes the matches found scanning left to right,
\* each search resuming after the end of the previous match (line 53).
RECURSIVE ReplaceFrom(_, _, _)
ReplaceFrom(keyword, text, i) ==
  IF i > Len(text) THEN << >>
  ELSE IF RegexMatchAt(keyword, text, i)
       THEN REDACTED \o ReplaceFrom(keyword, text, i + Len(keyword))
       ELSE <<text[i]>> \o ReplaceFrom(keyword, text, i + 1)

ReplaceAll(keyword, text) == ReplaceFrom(keyword, text, 1)

\* Variant: the flag is raised on every turn, matched or not.
ModerateKeyword_FlagAlways(keyword, st) ==
  [foundBannedContent |-> TRUE,
   moderatedText |-> IF RegexTest(keyword, st.moderatedText)
                     THEN ReplaceAll(keyword, st.moderatedText)
                     ELSE st.moderatedText]

\* Variant: once a keyword has matched, the later ones are skipped.
ModerateKeyword_FirstOnly(keyword, st) ==
  IF st.foundBannedContent THEN st
  ELSE IF RegexTest(keyword, st.moderatedText)
       THEN [foundBannedContent |-> TRUE,
             moderatedText |-> ReplaceAll(keyword, st.moderatedText)]
       ELSE st

\* One turn of the forEach callback (lines 49-55) on the state of the two
\* locals moderatedText and foundBannedContent.
ModerateKeyword(keyword, st) ==
  IF RegexTest(keyword, st.moderatedText)
  THEN [foundBannedContent |-> TRUE,
        moderatedText |-> ReplaceAll(keyword, st.moderatedText)]
  ELSE st

\* The forEach over a keyword array, from its n-th element on.
RECURSIVE ForEachKeyword(_, _, _)
ForEachKeyword(keywords, n, st) ==
  IF n > Len(keywords) THEN st
  ELSE ForEachKeyword(keywords, n + 1, ModerateKeyword(keywords[n], st))

\* moderateOutput over a given keyword array.
ModerateWith(keywords, text) ==
  LET st == ForEachKeyword(keywords, 1,
              [foundBannedContent |-> FALSE, moderatedText |-> text])
  IN  [isSafe |-> ~st.foundBannedContent, text |-> st.moderatedText]

moderateOutput(text) == ModerateWith(BANNED_KEYWORDS, text)

(***************************************************************************)
(* Texts of the model: concatenations of pieces chosen so that every       *)
(* keyword, its case variants, overlaps of two keywords, overlaps of a     *)
(* keyword with itself, blank lines and clean lines all occur.             *)
(***************************************************************************)
Pieces ==
  { <<"k">>, <<"K">>, <<KELVIN>>,
    <<"i", "l", "l">>,
    <<"h", "a", "c">>,
    <<"b", "o", "m", "b">>,
    <<"o", "m", "b">>,
    <<"r", "a", "p", "e">>,
    <<"V", "i", "o", "l", "e", "n", "c", "e">>,
    <<"e", "x", "p", "l", "o", "i", "t">>,
    <<" ">>,
    <<"o", "k">> }

RECURSIVE TextsOf(_)
TextsOf(n) ==
  IF n = 0 THEN { << >> }
  ELSE LET shorter == TextsOf(n - 1)
       IN  shorter \cup { t \o p : t \in shorter, p \in Pieces }

Texts == TextsOf(MaxPieces)

Lines == TextsOf(MaxLinePieces)

(***************************************************************************)
(* State.                                                                  *)
(***************************************************************************)
VARIABLES
  apiKeySet,        \* OPENROUTER_API_KEY is a non-empty string (line 28)
  upstream,         \* what the endpoint answers to a POST: status and text
  pc,               \* where main, or the harness, stands
  userPrompt,       \* main's userPrompt (line 129)
  moderationResult, \* main's moderationResult (line 150), in a sequence
  displayed,        \* the values printed by line 162, in order
  reported,         \* the error messages printed by line 166, in order
  outcome,          \* how the run ended
  error,            \* the error thrown into main's try block, "" if none
  rlOpen,           \* the readline interface of line 124 is open
  rlCloses,         \* calls of rl.close() (line 168)
  stages,           \* the steps main has taken, in order
  clientCalls,      \* invocations of callDeepseekAPI
  requests,         \* calls of fetch
  text,             \* harness: the text handed to the two matchers
  banned,           \* harness: containsBannedContent(text)
  verdict,          \* harness: moderateOutput(text)
  verdict2,         \* harness: a second application of moderateOutput
  callResult,       \* harness: the completion of callDeepseekAPI(text)
  keywords          \* harness: the keyword array the forEach runs over

envVars == <<apiKeySet, upstream>>
mainVars == <<pc, userPrompt, moderationResult, displayed, reported, outcome,
              error, rlOpen, rlCloses, stages, clientCalls, requests>>
harnessVars == <<text, banned, verdict, verdict2, callResult, keywords>>
vars == <<envVars, mainVars, harnessVars>>

(***************************************************************************)
(* JavaScript values a call can complete with.                             *)
(***************************************************************************)
Undefined == [type |-> "undefined", chars |-> << >>]
Str(t) == [type |-> "string", chars |-> t]

\* The string a value converts to, as RegExp.prototype.test and console.log apply it.
StringOf(v) ==
  IF v.type = "undefined"
  THEN <<"u", "n", "d", "e", "f", "i", "n", "e", "d">>
  ELSE v.chars

\* A call's completion: it threw error, or returned value; fetches counts
\* the calls of fetch it made.
Returned(v, n) == [threw |-> FALSE, error |-> "", value |-> v, fetches |-> n]
Thrown(e, n) == [threw |-> TRUE, error |-> e, value |-> Undefined, fetches |-> n]

(***************************************************************************)
(* The endpoint's possible answers.  No function of the module reads them: *)
(* they state what the endpoint would answer if it were asked.             *)
(***************************************************************************)
ReplyClean == <<"o", "k">>
ReplyBanned == <<"V", "i", "o", "l", "e", "n", "c", "e", " ", "o", "k">>
ErrorBody == <<"o", "k", " ", "o", "k">>

Upstreams ==
  { [status |-> 200, content |-> ReplyClean],
    [status |-> 200, content |-> ReplyBanned],
    [status |-> 200, content |-> << >>],
    [status |-> 500, content |-> ErrorBody] }

(***************************************************************************)
(* callDeepseekAPI (lines 66-75): the function's body ends with the "}}"   *)
(* of line 75.  With the key set it falls off its end: the promise         *)
(* resolves to undefined and fetch was not called.                         *)
(***************************************************************************)
\* Variant: the key is not checked.
callDeepseekAPI_NoKeyCheck(userInput) == Returned(Undefined, 0)

callDeepseekAPI(userInput) ==
  IF ~apiKeySet
  THEN Thrown("ConfigError", 0)
  ELSE Returned(Undefined, 0)

(***************************************************************************)
(* main (lines 119-170).                                                   *)
(***************************************************************************)
\* The functions the module declares (lines 36, 46, 66, 119).
DeclaredFunctions ==
  {"containsBannedContent", "moderateOutput", "callDeepseekAPI", "main"}

\* The name main calls at line 146.
CalleeOfMain == "callOpenRouter"

\* Evaluating name(arg) at line 146: an undeclared name throws a
\* ReferenceError before anything is called.
CallByName(name, arg) ==
  IF name \notin DeclaredFunctions
  THEN Thrown("ReferenceError", 0)
  ELSE callDeepseekAPI(arg)

\* String.prototype.trim (line 131).
RECURSIVE TrimStart(_)
TrimStart(t) ==
  IF Len(t) > 0 /\ IsWhiteSpace(Head(t)) THEN TrimStart(Tail(t)) ELSE t

RECURSIVE TrimEnd(_)
TrimEnd(t) ==
  IF Len(t) > 0 /\ IsWhiteSpace(t[Len(t)])
  THEN TrimEnd(SubSeq(t, 1, Len(t) - 1))
  ELSE t

\* Variant: the line is tested as typed.
Trim_AsTyped(t) == t

Trim(t) == TrimEnd(TrimStart(t))

\* moderateOutput applied to the value line 146 received (line 150): test
\* converts it to a string; a value no keyword matches is returned as it
\* is.
ModerateValue(v) ==
  LET m == moderateOutput(StringOf(v))
  IN  IF m.isSafe
      THEN [isSafe |-> TRUE, text |-> v]
      ELSE [isSafe |-> FALSE, text |-> Str(m.text)]

Init ==
  /\ apiKeySet \in BOOLEAN
  /\ upstream \in Upstreams
  /\ pc = "AwaitingInput"
  /\ userPrompt = << >>
  /\ moderationResult = << >>
  /\ displayed = << >>
  /\ reported = << >>
  /\ outcome = "Running"
  /\ error = ""
  /\ rlOpen = TRUE
  /\ rlCloses = 0
  /\ stages = << >>
  /\ clientCalls = 0
  /\ requests = 0
  /\ text = << >>
  /\ banned = FALSE
  /\ verdict = << >>
  /\ verdict2 = << >>
  /\ callResult = << >>
  /\ keywords = BANNED_KEYWORDS

\* Lines 129-134: the line arrives; an empty or blank line ends the run.
ReadLine ==
  /\ pc = "AwaitingInput"
  /\ \E line \in Lines :
       /\ userPrompt' = line
       /\ IF Len(Trim(line)) = 0
          THEN /\ outcome' = "EmptyInput"
               /\ pc' = "Finally"
          ELSE /\ outcome' = outcome
               /\ pc' = "InputCheck"
  /\ stages' = Append(stages, "read")
  /\ UNCHANGED <<moderationResult, displayed, reported, error, rlOpen,
                 rlCloses, clientCalls, requests>>
  /\ UNCHANGED <<envVars, harnessVars>>

\* Variant: a flagged line is reported but main does not return.
InputCheck_NoReturn ==
  /\ pc = "InputCheck"
  /\ outcome' = IF containsBannedContent(userPrompt)
                THEN "InputRejected" ELSE outcome
  /\ pc' = "Calling"
  /\ stages' = Append(stages, "inputCheck")
  /\ UNCHANGED <<userPrompt, moderationResult, displayed, reported, error,
                 rlOpen, rlCloses, clientCalls, requests>>
  /\ UNCHANGED <<envVars, harnessVars>>

\* Lines 136-143: input moderation.
InputCheck ==
  /\ pc = "InputCheck"
  /\ IF containsBannedContent(userPrompt)
     THEN /\ outcome' = "InputRejected"
          /\ pc' = "Finally"
     ELSE /\ outcome' = outcome
          /\ pc' = "Calling"
  /\ stages' = Append(stages, "inputCheck")
  /\ UNCHANGED <<userPrompt, moderationResult, displayed, reported, error,
                 rlOpen, rlCloses, clientCalls, requests>>
  /\ UNCHANGED <<envVars, harnessVars>>

\* Lines 146-163: the call, and with a returned value the output
\* moderation and the display, which follow it without another await.
Calling ==
  /\ pc = "Calling"
  /\ LET r == CallByName(CalleeOfMain, userPrompt)
         m == ModerateValue(r.value)
     IN  /\ clientCalls' =
              clientCalls + (IF CalleeOfMain \in DeclaredFunctions THEN 1 ELSE 0)
         /\ requests' = requests + r.fetches
         /\ IF r.threw
            THEN /\ error' = r.error
                 /\ pc' = "Catch"
                 /\ stages' = Append(stages, "call")
                 /\ UNCHANGED <<moderationResult, displayed, outcome>>
            ELSE /\ moderationResult' = <<m>>
                 /\ displayed' = Append(displayed, m.text)
                 /\ outcome' = "Done"
                 /\ pc' = "Finally"
                 /\ stages' = stages \o <<"call", "outputCheck", "display">>
                 /\ error' = error
  /\ UNCHANGED <<userPrompt, reported, rlOpen, rlCloses>>
  /\ UNCHANGED <<envVars, harnessVars>>

\* Lines 165-166: the catch clause prints the error's message.
Catch ==
  /\ pc = "Catch"
  /\ reported' = Append(reported, error)
  /\ outcome' = "Failed"
  /\ pc' = "Finally"
  /\ stages' = Append(stages, "catch")
  /\ UNCHANGED <<userPrompt, moderationResult, displayed, error, rlOpen,
                 rlCloses, clientCalls, requests>>
  /\ UNCHANGED <<envVars, harnessVars>>

\* Variant: main returns without closing the interface.
Finally_NoClose ==
  /\ pc = "Finally"
  /\ pc' = "Exited"
  /\ stages' = Append(stages, "close")
  /\ UNCHANGED <<userPrompt, moderationResult, displayed, reported, outcome,
                 error, rlOpen, rlCloses, clientCalls, requests>>
  /\ UNCHANGED <<envVars, harnessVars>>

\* Variant: after closing, main asks for another line.
Finally_AskAgain ==
  /\ pc = "Finally"
  /\ rlOpen' = FALSE
  /\ rlCloses' = rlCloses + 1
  /\ pc' = "AwaitingInput"
  /\ stages' = Append(stages, "close")
  /\ UNCHANGED <<userPrompt, moderationResult, displayed, reported, outcome,
                 error, clientCalls, requests>>
  /\ UNCHANGED <<envVars, harnessVars>>

\* Lines 167-169: the finally clause closes the interface; main returns.
Finally ==
  /\ pc = "Finally"
  /\ rlOpen' = FALSE
  /\ rlCloses' = rlCloses + 1
  /\ pc' = "Exited"
  /\ stages' = Append(stages, "close")
  /\ UNCHANGED <<userPrompt, moderationResult, displayed, reported, outcome,
                 error, clientCalls, requests>>
  /\ UNCHANGED <<envVars, harnessVars>>

Next == ReadLine \/ InputCheck \/ Calling \/ Catch \/ Finally

Spec == Init /\ [][Next]_vars

\* A run whose line arrives and whose continuations the event loop runs:
\* every step main can take is eventually taken.
LiveSpec == Spec /\ WF_vars(Next)

(***************************************************************************)
(* The two matchers applied to a text, and moderateOutput applied to its   *)
(* own result.                                                             *)
(***************************************************************************)
idleMain ==
  /\ userPrompt = << >>
  /\ moderationResult = << >>
  /\ displayed = << >>
  /\ reported = << >>
  /\ outcome = "Running"
  /\ error = ""
  /\ rlOpen = FALSE
  /\ rlCloses = 0
  /\ stages = << >>
  /\ clientCalls = 0
  /\ requests = 0

MatcherInit ==
  /\ apiKeySet = FALSE
  /\ upstream = [status |-> 200, content |-> ReplyClean]
  /\ pc = "matcher:ready"
  /\ idleMain
  /\ text \in Texts
  /\ banned = FALSE
  /\ verdict = << >>
  /\ verdict2 = << >>
  /\ callResult = << >>
  /\ keywords = BANNED_KEYWORDS

ApplyMatchers ==
  /\ pc = "matcher:ready"
  /\ banned' = containsBannedContent(text)
  /\ verdict' = <<moderateOutput(text)>>
  /\ pc' = "matcher:applied"
  /\ UNCHANGED <<userPrompt, moderationResult, displayed, reported, outcome,
                 error, rlOpen, rlCloses, stages, clientCalls, requests>>
  /\ UNCHANGED <<envVars, text, verdict2, callResult, keywords>>

ModerateAgain ==
  /\ pc = "matcher:applied"
  /\ verdict2' = <<moderateOutput(verdict[1].text)>>
  /\ pc' = "matcher:again"
  /\ UNCHANGED <<userPrompt, moderationResult, displayed, reported, outcome,
                 error, rlOpen, rlCloses, stages, clientCalls, requests>>
  /\ UNCHANGED <<envVars, text, banned, verdict, callResult, keywords>>

MatcherNext == ApplyMatchers \/ ModerateAgain

MatcherSpec == MatcherInit /\ [][MatcherNext]_vars

(***************************************************************************)
(* moderateOutput run over a permutation of BANNED_KEYWORDS, beside the    *)
(* run over the array as declared.                                         *)
(***************************************************************************)
\* Pieces that put two different keywords side by side, apart and
\* overlapping ("hackill", "rapexploit", "violencexploit").
OrderPieces ==
  { <<"h", "a", "c">>,
    <<"k", "i", "l", "l">>,
    <<"r", "a", "p">>,
    <<"v", "i", "o", "l", "e", "n", "c">>,
    <<"e", "x", "p", "l", "o", "i", "t">> }

RECURSIVE OrderTextsOf(_)
OrderTextsOf(n) ==
  IF n = 0 THEN { << >> }
  ELSE LET shorter == OrderTextsOf(n - 1)
       IN  shorter \cup { t \o p : t \in shorter, p \in OrderPieces }

OrderTexts == OrderTextsOf(MaxOrderPieces)

\* Every permutation of BANNED_KEYWORDS.
KeywordOrders ==
  { [n \in 1..Len(BANNED_KEYWORDS) |-> BANNED_KEYWORDS[p[n]]] :
      p \in Permutations(1..Len(BANNED_KEYWORDS)) }

OrderInit ==
  /\ apiKeySet = FALSE
  /\ upstream = [status |-> 200, content |-> ReplyClean]
  /\ pc = "order:ready"
  /\ idleMain
  /\ text \in OrderTexts
  /\ banned = FALSE
  /\ verdict = << >>
  /\ verdict2 = << >>
  /\ callResult = << >>
  /\ keywords \in KeywordOrders

ModerateInOrder ==
  /\ pc = "order:ready"
  /\ verdict' = <<moderateOutput(text)>>
  /\ verdict2' = <<ModerateWith(keywords, text)>>
  /\ pc' = "order:done"
  /\ UNCHANGED <<userPrompt, moderationResult, displayed, reported, outcome,
                 error, rlOpen, rlCloses, stages, clientCalls, requests>>
  /\ UNCHANGED <<envVars, text, banned, callResult, keywords>>

OrderNext == ModerateInOrder

OrderSpec == OrderInit /\ [][OrderNext]_vars

(***************************************************************************)
(* callDeepseekAPI invoked on a user message.                              *)
(***************************************************************************)
ClientInit ==
  /\ apiKeySet \in BOOLEAN
  /\ upstream \in Upstreams
  /\ pc = "client:ready"
  /\ idleMain
  /\ text \in Lines
  /\ banned = FALSE
  /\ verdict = << >>
  /\ verdict2 = << >>
  /\ callResult = << >>
  /\ keywords = BANNED_KEYWORDS

InvokeClient ==
  /\ pc = "client:ready"
  /\ LET r == callDeepseekAPI(text)
     IN  /\ callResult' = <<r>>
         /\ requests' = requests + r.fetches
  /\ clientCalls' = clientCalls + 1
  /\ pc' = "client:done"
  /\ UNCHANGED <<userPrompt, moderationResult, displayed, reported, outcome,
                 error, rlOpen, rlCloses, stages>>
  /\ UNCHANGED <<envVars, text, banned, verdict, verdict2, keywords>>

ClientNext == InvokeClient

ClientSpec == ClientInit /\ [][ClientNext]_vars

(***************************************************************************)
(* Notions the properties are stated with.                                 *)
(***************************************************************************)
\* The case variants of each letter the keywords use.
CaseClasses ==
  { {"k", "K", KELVIN}, {"i", "I"}, {"l", "L"}, {"h", "H"}, {"a", "A"},
    {"c", "C"}, {"b", "B"}, {"o", "O"}, {"m", "M"}, {"e", "E"}, {"x", "X"},
    {"p", "P"}, {"t", "T"}, {"v", "V"}, {"n", "N"}, {"r", "R"} }

SameLetter(a, b) == a = b \/ \E cls \in CaseClasses : a \in cls /\ b \in cls

\* term occurs in t at position i, whatever the case of t's letters.
OccursAt(term, t, i) ==
  /\ i >= 1
  /\ i + Len(term) - 1 <= Len(t)
  /\ \A j \in 1..Len(term) : SameLetter(t[i + j - 1], term[j])

\* t contains a denylist term, at any letter case, as a substring.
ContainsTerm(t) ==
  \E n \in 1..Len(BANNED_KEYWORDS) :
    \E i \in 1..Len(t) : OccursAt(BANNED_KEYWORDS[n], t, i)

\* t is empty or white space only.
IsBlank(t) == \A i \in 1..Len(t) : t[i] \in {" ", "\t"}

\* Some letter of t is not lower-case.
HasUpperCase(t) == \E i \in 1..Len(t) : t[i] \in {"K", KELVIN, "V"}

Stage(s) == \E i \in 1..Len(stages) : stages[i] = s

LineRead == pc \in {"InputCheck", "Calling", "Catch", "Finally", "Exited"}

\* The line passes both input gates.
LineAccepted == LineRead /\ ~IsBlank(userPrompt) /\ ~ContainsTerm(userPrompt)

(***************************************************************************)
(* C1: a line that contains a denylist term, at any letter case, never     *)
(* reaches the call of line 146: main does not evaluate the call, no       *)
(* client function is invoked, nothing is fetched, and the run ends as     *)
(* InputRejected.                                                          *)
(***************************************************************************)
C1_BannedLineNeverCalls ==
  (LineRead /\ ContainsTerm(userPrompt)) =>
     /\ pc \notin {"Calling", "Catch"}
     /\ ~Stage("call")
     /\ clientCalls = 0
     /\ requests = 0
     /\ (pc \in {"Finally", "Exited"} => outcome = "InputRejected")

C1_Witness ==
  /\ pc = "Exited"
  /\ ContainsTerm(userPrompt)
  /\ HasUpperCase(userPrompt)
  /\ outcome = "InputRejected"

(***************************************************************************)
(* C2: an empty or white-space-only line ends the run as EmptyInput        *)
(* without the input denylist check, without the call, and with nothing    *)
(* fetched.                                                                *)
(***************************************************************************)
C2_BlankLineNeverCalls ==
  (LineRead /\ IsBlank(userPrompt)) =>
     /\ pc \in {"Finally", "Exited"}
     /\ outcome = "EmptyInput"
     /\ ~Stage("inputCheck")
     /\ ~Stage("call")
     /\ clientCalls = 0
     /\ requests = 0

C2_Witness ==
  /\ pc = "Exited"
  /\ Len(userPrompt) > 0
  /\ IsBlank(userPrompt)
  /\ outcome = "EmptyInput"

(***************************************************************************)
(* C3: callDeepseekAPI invoked without the key fails with the              *)
(* configuration error and fetches nothing.                                *)
(***************************************************************************)
C3_NoKeyConfigError ==
  (pc = "client:done" /\ ~apiKeySet) =>
     /\ callResult[1].threw
     /\ callResult[1].error = "ConfigError"
     /\ callResult[1].fetches = 0
     /\ requests = 0

C3_Witness ==
  /\ pc = "client:done"
  /\ ~apiKeySet
  /\ callResult[1].threw

\* The endpoint would answer with a success status and a non-empty content.
UpstreamSucceeds == upstream.status = 200 /\ upstream.content # << >>

\* The run has ended with a line that passes both input gates.
AcceptedRunEnded ==
  pc = "Exited" /\ ~IsBlank(userPrompt) /\ ~ContainsTerm(userPrompt)

(***************************************************************************)
(* C4: with an accepted line, the key set and an endpoint that answers     *)
(* with a success status and a non-empty content, the run invokes the      *)
(* client, moderates the reply and ends as Done; a reply without a         *)
(* denylist term is displayed unchanged with isSafe true.                  *)
(***************************************************************************)
C4_AcceptedLineReachesDone ==
  (AcceptedRunEnded /\ apiKeySet /\ UpstreamSucceeds) =>
     /\ outcome = "Done"
     /\ clientCalls = 1
     /\ Stage("outputCheck")
     /\ (~ContainsTerm(upstream.content) =>
           /\ displayed = <<Str(upstream.content)>>
           /\ moderationResult[1].isSafe)

(***************************************************************************)
(* C5: the reply is displayed in the safe and in the unsafe case, and what *)
(* is displayed is the text moderateOutput returns for it: the redacted    *)
(* text, with isSafe false, when the reply contains a denylist term.       *)
(***************************************************************************)
C5_DisplaysModeratedReply ==
  (AcceptedRunEnded /\ apiKeySet /\ UpstreamSucceeds) =>
     /\ Len(displayed) = 1
     /\ displayed[1] = Str(moderateOutput(upstream.content).text)
     /\ moderationResult[1].isSafe = ~ContainsTerm(upstream.content)

(***************************************************************************)
(* C9: when the endpoint answers with a non-success status, the run ends   *)
(* as Failed with the HTTP error reported, after exactly one request, and  *)
(* displays no response.                                                   *)
(***************************************************************************)
C9_HttpErrorReported ==
  (AcceptedRunEnded /\ apiKeySet /\ upstream.status # 200) =>
     /\ outcome = "Failed"
     /\ reported = <<"HttpError">>
     /\ requests = 1
     /\ displayed = << >>

(***************************************************************************)
(* C10: an invocation of callDeepseekAPI with the key set sends exactly    *)
(* one request.                                                            *)
(***************************************************************************)
C10_OneRequestPerInvocation ==
  (pc = "client:done" /\ apiKeySet) =>
     /\ callResult[1].fetches = 1
     /\ requests = 1

(***************************************************************************)
(* Notions for the properties of the two matchers.                         *)
(***************************************************************************)
MatchersApplied == pc \in {"matcher:applied", "matcher:again"}

\* Position p of t lies inside an occurrence of some denylist term.
Covered(t, p) ==
  \E n \in 1..Len(BANNED_KEYWORDS) :
    \E i \in 1..p :
      OccursAt(BANNED_KEYWORDS[n], t, i) /\ p <= i + Len(BANNED_KEYWORDS[n]) - 1

\* The characters of t outside every occurrence of every term, from p on.
RECURSIVE UncoveredFrom(_, _)
UncoveredFrom(t, p) ==
  IF p > Len(t) THEN << >>
  ELSE IF Covered(t, p) THEN UncoveredFrom(t, p + 1)
       ELSE <<t[p]>> \o UncoveredFrom(t, p + 1)

\* t without the markers it holds, from p on.
RECURSIVE WithoutMarkersFrom(_, _)
WithoutMarkersFrom(t, p) ==
  IF p > Len(t) THEN << >>
  ELSE IF p + Len(REDACTED) - 1 <= Len(t)
          /\ SubSeq(t, p, p + Len(REDACTED) - 1) = REDACTED
       THEN WithoutMarkersFrom(t, p + Len(REDACTED))
       ELSE <<t[p]>> \o WithoutMarkersFrom(t, p + 1)

\* t holds a marker.
HasMarker(t) ==
  \E p \in 1..Len(t) :
    p + Len(REDACTED) - 1 <= Len(t) /\ SubSeq(t, p, p + Len(REDACTED) - 1) = REDACTED

(***************************************************************************)
(* C6: for a text that contains a denylist term at any case variant,       *)
(* containsBannedContent is true, moderateOutput returns isSafe false, and *)
(* every occurrence of every term in the original is replaced by the       *)
(* marker, overlapping occurrences included: nothing of an occurrence is   *)
(* left in the returned text.                                              *)
(***************************************************************************)
C6_EveryOccurrenceRedacted ==
  (MatchersApplied /\ ContainsTerm(text)) =>
     /\ banned
     /\ ~verdict[1].isSafe
     /\ HasMarker(verdict[1].text)
     /\ WithoutMarkersFrom(verdict[1].text, 1) = UncoveredFrom(text, 1)

(***************************************************************************)
(* C7: for a text with no substring equal, whatever the letter case, to a  *)
(* denylist term, containsBannedContent is false and moderateOutput        *)
(* returns isSafe true and the text as it was.                             *)
(***************************************************************************)
C7_CleanTextUntouched ==
  (MatchersApplied /\ ~ContainsTerm(text)) =>
     /\ ~banned
     /\ verdict[1].isSafe
     /\ verdict[1].text = text

C7_Witness ==
  /\ pc = "matcher:applied"
  /\ ~ContainsTerm(text)
  /\ Len(text) >= 4
  /\ HasUpperCase(text)
  /\ verdict[1].isSafe

(***************************************************************************)
(* C8: the text moderateOutput returns contains no denylist term at any    *)
(* letter case, and moderateOutput applied to it returns isSafe true and   *)
(* the same text.                                                          *)
(***************************************************************************)
C8_RedactionTotalIdempotent ==
  pc = "matcher:again" =>
     /\ ~ContainsTerm(verdict[1].text)
     /\ verdict2[1].isSafe
     /\ verdict2[1].text = verdict[1].text

(***************************************************************************)
(* C11: on a success status callDeepseekAPI returns the trimmed content    *)
(* when it is present and non-empty, and fails with the empty-response     *)
(* error when it is absent or empty.                                       *)
(***************************************************************************)
C11_ContentReturnedTrimmed ==
  (pc = "client:done" /\ apiKeySet /\ upstream.status = 200) =>
     IF upstream.content # << >>
     THEN /\ ~callResult[1].threw
          /\ callResult[1].value = Str(Trim(upstream.content))
     ELSE /\ callResult[1].threw
          /\ callResult[1].error = "EmptyResponseError"

\* The error the client is to fail with, given the key and the endpoint's
\* answer; "" when it is to succeed.
ExpectedClientError ==
  IF ~apiKeySet THEN "ConfigError"
  ELSE IF upstream.status # 200 THEN "HttpError"
  ELSE IF upstream.content = << >> THEN "EmptyResponseError"
  ELSE ""

(***************************************************************************)
(* C12: every error of the client is caught by main and reported to the    *)
(* user with the error's own message, and the run ends cleanly: an         *)
(* accepted line whose client call is to fail ends as Failed with that     *)
(* error reported and the interface closed.                                *)
(***************************************************************************)
C12_ClientErrorsReported ==
  (AcceptedRunEnded /\ ExpectedClientError # "") =>
     /\ outcome = "Failed"
     /\ reported = <<ExpectedClientError>>
     /\ displayed = << >>
     /\ rlCloses = 1

(***************************************************************************)
(* C13: the readline interface is closed exactly once on every exit path:  *)
(* it is open until main's finally clause, a run that has read its line    *)
(* does not stop before that clause, and when main has returned rl.close   *)
(* has been called once and the interface is closed.                       *)
(***************************************************************************)
C13_InterfaceClosedOnce ==
  /\ rlCloses <= 1
  /\ rlOpen = (rlCloses = 0)
  /\ (pc = "Exited" => rlCloses = 1 /\ ~rlOpen)
  /\ (pc # "Exited" => rlCloses = 0)
  /\ (LineRead /\ pc # "Exited" => ENABLED Next)

C13_Witness ==
  /\ pc = "Exited"
  /\ outcome = "Failed"
  /\ reported # << >>
  /\ rlCloses = 1
  /\ ~rlOpen

\* Occurrences of two different denylist terms share a position of t.
TermsOverlap(t) ==
  \E n, m \in 1..Len(BANNED_KEYWORDS) :
    /\ n # m
    /\ \E i, j \in 1..Len(t) :
         /\ OccursAt(BANNED_KEYWORDS[n], t, i)
         /\ OccursAt(BANNED_KEYWORDS[m], t, j)
         /\ i <= j
         /\ j <= i + Len(BANNED_KEYWORDS[n]) - 1

\* Two different denylist terms occur in t.
TwoTermsOccur(t) ==
  \E n, m \in 1..Len(BANNED_KEYWORDS) :
    /\ n # m
    /\ \E i, j \in 1..Len(t) :
         OccursAt(BANNED_KEYWORDS[n], t, i) /\ OccursAt(BANNED_KEYWORDS[m], t, j)

C15_SafeIffNotBanned ==
  MatchersApplied =>
     /\ verdict[1].isSafe = ~ContainsTerm(text)
     /\ verdict[1].isSafe = ~banned

\* The steps of a run, in order, for each way it can end.
StagesWhenRunning == <<"read", "inputCheck">>
StagesWhenEmpty == <<"read", "close">>
StagesWhenRejected == <<"read", "inputCheck", "close">>
StagesWhenFailed == <<"read", "inputCheck", "call", "catch", "close">>
StagesWhenDone ==
  <<"read", "inputCheck", "call", "outputCheck", "display", "close">>

IsPrefix(s, t) == Len(s) <= Len(t) /\ SubSeq(t, 1, Len(s)) = s

\* At least the first n steps of t have been taken, and no other.
PrefixFrom(s, t, n) == Len(s) >= n /\ IsPrefix(s, t)

(***************************************************************************)
(* C16: the steps of a run occur only in the order read, input check,      *)
(* call, output check, display; the call is made only for a line that was  *)
(* read and passed the emptiness and the denylist check; moderateOutput    *)
(* runs only on the value a call returned; and once the run has failed     *)
(* (empty line, rejected line, error caught) no call, output check or      *)
(* display follows.                                                        *)
(***************************************************************************)
C16_StepsInOrder ==
  /\ outcome = "Running" =>
        \/ IsPrefix(stages, StagesWhenRunning)
        \/ stages = <<"read", "inputCheck", "call">> /\ pc = "Catch"
  /\ outcome = "EmptyInput" => PrefixFrom(stages, StagesWhenEmpty, 1)
  /\ outcome = "InputRejected" => PrefixFrom(stages, StagesWhenRejected, 2)
  /\ outcome = "Failed" => PrefixFrom(stages, StagesWhenFailed, 4)
  /\ outcome = "Done" => PrefixFrom(stages, StagesWhenDone, 5)
  /\ (Stage("call") \/ pc = "Calling") => LineAccepted
  /\ (Stage("outputCheck") \/ moderationResult # << >> \/ displayed # << >>) =>
        /\ outcome = "Done"
        /\ error = ""
        /\ clientCalls = 1

C16_Witness ==
  /\ pc = "Exited"
  /\ outcome = "Failed"
  /\ stages = StagesWhenFailed

\* The lines the run has read.
Reads == Cardinality({i \in 1..Len(stages) : stages[i] = "read"})

(***************************************************************************)
(* C17: a run whose line read completes handles one user turn and          *)
(* terminates: it eventually has returned, as Done or as a failure, with   *)
(* the interface closed; it then takes no further step; it reads at most   *)
(* one line and never goes back to awaiting input.                         *)
(***************************************************************************)
C17_OneTurnThenStops ==
  /\ <>(pc = "Exited" /\ ~rlOpen)
  /\ [](pc = "Exited" =>
          /\ outcome \in {"Done", "Failed", "EmptyInput", "InputRejected"}
          /\ ~ENABLED Next)
  /\ [](Reads <= 1)
  /\ [][pc' # "AwaitingInput"]_vars

C17_Witness ==
  /\ pc = "Exited"
  /\ Reads = 1
  /\ ~rlOpen
  /\ ~ENABLED Next

=============================================================================
